---- MODULE Spec2Model ----
(***************************************************************************)
(* Model of dynamodb_cleanup_script.js: the paginated scan, the change     *)
(* filter, the retrying mutator and the batch scheduler, together with     *)
(* the store (a DynamoDB table) they talk to.                              *)
(*                                                                         *)
(* One action is one resumption of the single-threaded program: the code   *)
(* that runs from one await (a store answer, a timer) to the next.         *)
(***************************************************************************)
EXTENDS Integers, Sequences, FiniteSets, TLC

(***************************************************************************)
(* Bounds of the model                                                     *)
(***************************************************************************)
\* largest number of records in the table
NumRecords == 3
\* number of records the store returns per scan page
PageSize == 1
\* number of page requests of one run the store answers with an error
MaxScanFailures == 2
\* largest configured BATCH_SIZE
MaxBatchSize == 2
\* largest configured MAX_RETRIES
MaxRetriesCfg == 2
\* largest attempt number calculateBackoffDelay is called with
MaxAttempt == 4

(***************************************************************************)
(* Configuration (lines 6-12)                                              *)
(***************************************************************************)
\* process.env after dotenv (line 1): each setting is undefined or a string.
\* A string is a sequence of tokens: a name, "," or " ".
VARIABLE env

undefined == [set |-> FALSE, value |-> <<>>]
String(tokens) == [set |-> TRUE, value |-> tokens]
\* !x of a string or undefined: undefined and the empty string are falsy
Not(x) == ~x.set \/ x.value = <<>>
\* the name a string of at most one token spells
Text(tokens) == IF tokens = <<>> THEN "" ELSE tokens[1]

\* String.prototype.split: the pieces between the separators, the empty ones too
RECURSIVE split(_, _)
split(s, sep) ==
  IF \E i \in DOMAIN s : s[i] = sep
    THEN LET k == CHOOSE i \in DOMAIN s : s[i] = sep /\ \A j \in 1 .. (i - 1) : s[j] # sep
         IN  <<SubSeq(s, 1, k - 1)>> \o split(SubSeq(s, k + 1, Len(s)), sep)
    ELSE <<s>>

\* String.prototype.trim
RECURSIVE trim(_)
trim(s) ==
  IF s # <<>> /\ Head(s) = " " THEN trim(Tail(s))
  ELSE IF s # <<>> /\ s[Len(s)] = " " THEN trim(SubSeq(s, 1, Len(s) - 1))
  ELSE s

\* line 8: x?.split(',').map(attr => attr.trim()) || []
ParseAttributes(x) ==
  IF x.set
    THEN [i \in DOMAIN split(x.value, ",") |-> Text(trim(split(x.value, ",")[i]))]
    ELSE <<>>

\* the settings the model runs the script with
Envs ==
  [DYNAMODB_TABLE_NAME : {undefined, String(<<"devices">>)},
   DYNAMODB_PARTITION_KEY : {undefined, String(<<>>), String(<<"id">>)},
   ATTRIBUTES_TO_REMOVE : {undefined, String(<<>>), String(<<"old", ",", " ", "tmp">>)}]

TABLE_NAME == env.DYNAMODB_TABLE_NAME
PARTITION_KEY == Text(env.DYNAMODB_PARTITION_KEY.value)
ATTRIBUTES_TO_REMOVE == ParseAttributes(env.ATTRIBUTES_TO_REMOVE)
INITIAL_DELAY == 100
\* the values Math.random() * 1000 is drawn from (line 25), in ms
Jitters == {0, 999}
\* the base delays calculateBackoffDelay is called with, in ms
BaseDelays == {1, INITIAL_DELAY, 20000}
\* BATCH_SIZE = parseInt(env) || 25: the configured values the model runs
BatchSizes == 1 .. MaxBatchSize
\* MAX_RETRIES = parseInt(env) || 5: any integer but 0; a negative one too
RetryLimits == {-1} \cup (1 .. MaxRetriesCfg)

\* the error names the store answers with
ErrThrottle == {"ProvisionedThroughputExceededException", "ThrottlingException"}
ErrOther == {"ValidationException"}
ErrorNames == ErrThrottle \cup ErrOther
\* what the store meant by the error
ErrorKind(name) == IF name \in ErrThrottle THEN "RateLimited" ELSE "Other"

Min(a, b) == IF a < b THEN a ELSE b

RECURSIVE Pow2(_)
Pow2(n) == IF n <= 0 THEN 1 ELSE 2 * Pow2(n - 1)

Range(s) == {s[i] : i \in DOMAIN s}

(***************************************************************************)
(* The store: a table of items in DynamoDB's attribute-value form          *)
(***************************************************************************)
\* marshall / unmarshall of @aws-sdk/util-dynamodb, on numbers
marshallValue(v) == [N |-> v]
unmarshallValue(av) == av.N
marshall(obj) == [a \in DOMAIN obj |-> marshallValue(obj[a])]
unmarshall(item) == [a \in DOMAIN item |-> unmarshallValue(item[a])]

\* the attribute that is the partition key of the table
KeyAttribute == "id"
\* the attribute sets a stored record may have, beside its partition key
AttrShapes == {{"extra"}, {"old", "extra"}, {"old", "tmp"}}
StoredItem(i, shape) == [a \in shape \cup {KeyAttribute} |->
                           IF a = KeyAttribute THEN marshallValue(i) ELSE marshallValue(7)]
TablesOf(n) == {[i \in 1 .. n |-> StoredItem(i, sh[i])] : sh \in [1 .. n -> AttrShapes]}
Tables == UNION {TablesOf(n) : n \in 0 .. NumRecords}

\* Scan: the page after the continuation token (0: none), and the next token
StoreScanPage(tbl, token) ==
  LET last == Min(token + PageSize, Len(tbl))
  IN  [Items |-> [j \in 1 .. (last - token) |-> tbl[token + j]],
       LastEvaluatedKey |-> IF last < Len(tbl) THEN last ELSE 0]

\* UpdateItem: removes the attributes the REMOVE expression names from the
\* item the key addresses; removing an absent attribute changes nothing
RemovedNames(params) ==
  IF "UpdateExpression" \in DOMAIN params
    THEN {params.ExpressionAttributeNames[ph] : ph \in Range(params.UpdateExpression.REMOVE)}
    ELSE {}
KeyMatches(item, Key) ==
  \A a \in DOMAIN Key : a \in DOMAIN item /\ item[a] = Key[a]
StoreUpdateItem(tbl, params) ==
  [i \in DOMAIN tbl |->
     IF KeyMatches(tbl[i], params.Key)
       THEN [a \in (DOMAIN tbl[i]) \ RemovedNames(params) |-> tbl[i][a]]
       ELSE tbl[i]]

(***************************************************************************)
(* Pure functions of the script                                            *)
(***************************************************************************)
\* a variant that grows with the attempt number and not with its power of two
calculateBackoffDelayLinear(attempt, baseDelay, jitter) ==
  Min(baseDelay * 2 * attempt + jitter, 30000)

\* a variant without the cap
calculateBackoffDelayUncapped(attempt, baseDelay, jitter) ==
  baseDelay * Pow2(attempt) + jitter

\* lines 24-26
calculateBackoffDelay(attempt, baseDelay, jitter) ==
  Min(baseDelay * Pow2(attempt) + jitter, 30000)

\* a variant that takes every error as rate limiting
IsThrottlingErrorAny(name) == name \in ErrorNames

\* lines 61-62 and 126-127: the error names taken as rate limiting
IsThrottlingError(name) ==
  name = "ProvisionedThroughputExceededException" \/ name = "ThrottlingException"

hasOwnProperty(item, attr) == attr \in DOMAIN item

\* a variant that keeps the records having every attribute of the list
filterItemsWithAllAttributes(items, attributesToRemove) ==
  SelectSeq(items, LAMBDA item :
      \A i \in DOMAIN attributesToRemove : hasOwnProperty(item, attributesToRemove[i]))

\* a variant that keeps every record
filterKeepsAll(items, attributesToRemove) ==
  SelectSeq(items, LAMBDA item : Len(attributesToRemove) > 0)

\* lines 81-85
filterItemsWithAttributes(items, attributesToRemove) ==
  SelectSeq(items, LAMBDA item :
      \E i \in DOMAIN attributesToRemove : hasOwnProperty(item, attributesToRemove[i]))

\* lines 88-106; null is the record NULL
NULL == [null |-> TRUE]
Placeholder(index) == <<"#attr", index>>
\* a variant that names every attribute of the list, on the record or not
createUpdateExpressionAll(attributesToRemove, item) ==
  [UpdateExpression |->
     [REMOVE |-> [i \in 1 .. Len(attributesToRemove) |-> Placeholder(i - 1)]],
   ExpressionAttributeNames |->
     [ph \in {Placeholder(i - 1) : i \in 1 .. Len(attributesToRemove)} |->
        attributesToRemove[ph[2] + 1]]]

createUpdateExpression(attributesToRemove, item) ==
  LET existingAttributes ==
        SelectSeq(attributesToRemove, LAMBDA attr : hasOwnProperty(item, attr))
  IN  IF Len(existingAttributes) = 0
        THEN NULL
        ELSE [UpdateExpression |->
                [REMOVE |-> [i \in 1 .. Len(existingAttributes) |-> Placeholder(i - 1)]],
              ExpressionAttributeNames |->
                [ph \in {Placeholder(i - 1) : i \in 1 .. Len(existingAttributes)} |->
                   existingAttributes[ph[2] + 1]]]

\* a variant of slice that takes the element at the end index too
sliceInclusive(items, from, to) ==
  [j \in 1 .. (Min(to + 1, Len(items)) - from) |-> items[from + j]]

\* lines 147-152: items.slice(i, i + BATCH_SIZE) for i = 0, BATCH_SIZE, ...
slice(items, from, to) ==
  [j \in 1 .. (Min(to, Len(items)) - from) |-> items[from + j]]
RECURSIVE BatchesFrom(_, _, _)
BatchesFrom(items, i, size) ==
  IF i < Len(items)
    THEN <<slice(items, i, i + size)>> \o BatchesFrom(items, i + size, size)
    ELSE <<>>
\* a variant that groups full batches only and drops the records left over
RECURSIVE FullBatchesFrom(_, _, _)
FullBatchesFrom(items, i, size) ==
  IF i + size <= Len(items)
    THEN <<slice(items, i, i + size)>> \o FullBatchesFrom(items, i + size, size)
    ELSE <<>>
BatchesFullOnly(items, size) == FullBatchesFrom(items, 0, size)

Batches(items, size) == BatchesFrom(items, 0, size)

\* lines 114-119: the parameters of one UpdateItem
UpdateParams(key, updateExpression) ==
  IF updateExpression = NULL
    THEN [Key |-> marshall(key), ReturnValues |-> "NONE"]
    ELSE [Key |-> marshall(key), ReturnValues |-> "NONE",
          UpdateExpression |-> updateExpression.UpdateExpression,
          ExpressionAttributeNames |-> updateExpression.ExpressionAttributeNames]

\* line 77: the key schema main works with; it has no sort key
NoSortKey == [set |-> FALSE, value |-> <<>>]
getTableKeySchema == [partitionKey |-> PARTITION_KEY, sortKey |-> NoSortKey]

\* a value of a record is truthy; the values are numbers
Truthy(v) == v # 0

\* lines 165-169: the key of a record under a key schema
KeyOf(keySchema, item) ==
  LET sortKey == Text(keySchema.sortKey.value)
  IN  [a \in {keySchema.partitionKey} \cup
              (IF ~Not(keySchema.sortKey) /\ sortKey \in DOMAIN item /\ Truthy(item[sortKey])
                 THEN {sortKey} ELSE {}) |->
         item[a]]

\* lines 166-169, with the key schema of getTableKeySchema
ItemKey(item) == KeyOf(getTableKeySchema, item)

(***************************************************************************)
(* State                                                                   *)
(***************************************************************************)
VARIABLES
  table,             \* the store: record number -> stored item
  BATCH_SIZE,        \* line 10
  MAX_RETRIES,       \* line 11
  pc,                \* where main and the functions it awaits stand
  exitCode,          \* -1 while the process runs, else its exit code
  sleeping,          \* the delay(ms) the main flow waits for, 0 when none
  items,             \* scanAllItems: the record buffer
  lastEvaluatedKey,  \* scanAllItems: continuation token, 0 is null
  scanCount,         \* scanAllItems: pages retrieved
  requests,          \* the page requests of this run and their answers
  allItems,          \* main: the records the scan returned
  itemsToUpdate,     \* main: the records kept by the filter
  batches,           \* processItemsInBatches
  batchIndex,        \* processItemsInBatches, counted from 0
  successCount,      \* processItemsInBatches
  errorCount,        \* processItemsInBatches
  mut,               \* one updateItemWithRetry invocation per kept record
  succeeded,         \* ids of the records with a Succeeded outcome so far
  abandoned,         \* mutations in flight when a signal ended the process
  call               \* a call of a function of the module made from outside main

vars == <<env, table, BATCH_SIZE, MAX_RETRIES, pc, exitCode, sleeping, items,
          lastEvaluatedKey, scanCount, requests, allItems, itemsToUpdate,
          batches, batchIndex, successCount, errorCount, mut, succeeded,
          abandoned, call>>

configVars == <<env, BATCH_SIZE, MAX_RETRIES>>
scanVars == <<items, lastEvaluatedKey, scanCount, requests>>
batchVars == <<batches, batchIndex, successCount, errorCount, mut>>

Terminal == {"done", "noop", "fatal", "exited"}

\* an updateItemWithRetry invocation not yet made
IdleMutator ==
  [mpc |-> "idle", key |-> <<>>, updateExpression |-> NULL, maxRetries |-> 0, attempt |-> 0,
   backoffDelay |-> 0, success |-> FALSE, sends |-> 0, sleeps |-> 0,
   throttles |-> 0, lastError |-> ""]

\* no function of the module is called from outside main
NoCall == [fn |-> "none"]

Init ==
  /\ env \in Envs
  /\ table \in Tables
  /\ BATCH_SIZE \in BatchSizes
  /\ MAX_RETRIES \in RetryLimits
  /\ pc = "main"
  /\ exitCode = -1
  /\ sleeping = 0
  /\ items = <<>>
  /\ lastEvaluatedKey = 0
  /\ scanCount = 0
  /\ requests = <<>>
  /\ allItems = <<>>
  /\ itemsToUpdate = <<>>
  /\ batches = <<>>
  /\ batchIndex = 0
  /\ successCount = 0
  /\ errorCount = 0
  /\ mut = <<>>
  /\ succeeded = {}
  /\ abandoned = 0
  /\ call = NoCall

(***************************************************************************)
(* scanAllItems (lines 29-73), driven by main (lines 203-229)              *)
(***************************************************************************)
\* a page request: its ExclusiveStartKey (0: none), the delay the scan slept
\* before it (0: none), the answer of the store and the LastEvaluatedKey of
\* the page it answered with (0: none)
Request(token, slept) ==
  [token |-> token, slept |-> slept, answer |-> "pending", next |-> 0]
Answered(reqs, answer) == [reqs EXCEPT ![Len(reqs)].answer = answer]
ScanFailures(reqs) ==
  Cardinality({i \in DOMAIN reqs : reqs[i].answer \in {"RateLimited", "Other"}})

\* lines 206-215: the tests main throws an Error on
ConfigInvalid ==
  \/ Not(TABLE_NAME)
  \/ Not(env.DYNAMODB_PARTITION_KEY)
  \/ Len(ATTRIBUTES_TO_REMOVE) = 0

\* lines 203-229 and 30-44: main validates the configuration; an invalid one
\* is fatal (lines 260-263), else the scan starts and sends the request of
\* the first page, without a token
MainStart ==
  /\ pc = "main"
  /\ items' = <<>>
  /\ lastEvaluatedKey' = 0
  /\ scanCount' = 0
  /\ IF ConfigInvalid
       THEN /\ requests' = <<>>
            /\ pc' = "fatal"
            /\ exitCode' = 1
       ELSE /\ requests' = <<Request(0, 0)>>
            /\ pc' = "scanning"
            /\ exitCode' = exitCode
  /\ UNCHANGED <<call, table, configVars, sleeping, allItems,
                 itemsToUpdate, batchVars, succeeded, abandoned>>

\* a variant that takes every page as the last one
HasMoreNever(key) == FALSE

\* lines 40, 56 and 69: lastEvaluatedKey is truthy, more pages remain
HasMore(key) == key # 0

\* lines 46-58 and 69-72: a page arrives
ScanPageArrives ==
  /\ pc = "scanning"
  /\ LET response == StoreScanPage(table, lastEvaluatedKey)
         unmarshalled == [j \in DOMAIN response.Items |-> unmarshall(response.Items[j])]
     IN  /\ items' = items \o unmarshalled
         /\ scanCount' = scanCount + 1
         /\ lastEvaluatedKey' = response.LastEvaluatedKey
         /\ requests' = [Answered(requests, "ok") EXCEPT
                           ![Len(requests)].next = response.LastEvaluatedKey]
         /\ IF HasMore(response.LastEvaluatedKey)
              THEN /\ pc' = "scanPace"
                   /\ sleeping' = 50
                   /\ allItems' = allItems
              ELSE /\ pc' = "scanned"
                   /\ sleeping' = 0
                   /\ allItems' = items \o unmarshalled
  /\ UNCHANGED <<call, table, configVars, exitCode, itemsToUpdate, batchVars,
                 succeeded, abandoned>>

\* lines 56-58, 69 and 38-44: the pacing delay is over, the loop condition
\* holds and the next page is requested with the token
ScanPaceElapsed ==
  /\ pc = "scanPace"
  /\ sleeping' = 0
  /\ requests' = Append(requests, Request(lastEvaluatedKey, sleeping))
  /\ pc' = "scanning"
  /\ UNCHANGED <<call, table, configVars, exitCode, items, lastEvaluatedKey,
                 scanCount, allItems, itemsToUpdate, batchVars, succeeded, abandoned>>

\* lines 60-68 (and 260-263 of main): the page request fails
ScanRequestFails ==
  /\ pc = "scanning"
  /\ ScanFailures(requests) < MaxScanFailures
  /\ \E name \in ErrorNames :
       /\ requests' = Answered(requests, ErrorKind(name))
       /\ IF IsThrottlingError(name)
            THEN /\ \E jitter \in Jitters :
                      sleeping' = calculateBackoffDelay(1, INITIAL_DELAY, jitter)
                 /\ pc' = "scanBackoff"
                 /\ exitCode' = exitCode
            ELSE /\ sleeping' = 0
                 /\ pc' = "fatal"
                 /\ exitCode' = 1
  /\ UNCHANGED <<call, table, configVars, items, lastEvaluatedKey, scanCount,
                 allItems, itemsToUpdate, batchVars, succeeded, abandoned>>

\* lines 64-65 and 69-72: the backoff is over; continue jumps to the
\* condition of the do-while loop
ScanBackoffElapsed ==
  /\ pc = "scanBackoff"
  /\ sleeping' = 0
  /\ IF HasMore(lastEvaluatedKey)
       THEN /\ requests' = Append(requests, Request(lastEvaluatedKey, sleeping))
            /\ pc' = "scanning"
            /\ allItems' = allItems
       ELSE /\ requests' = requests
            /\ pc' = "scanned"
            /\ allItems' = items
  /\ UNCHANGED <<call, table, configVars, exitCode, items, lastEvaluatedKey,
                 scanCount, itemsToUpdate, batchVars, succeeded, abandoned>>

\* lines 231-249 and 147-157: main filters the records and, when some need
\* an update, processItemsInBatches groups them; the locals of scanAllItems
\* are gone
MainFilter ==
  /\ pc = "scanned"
  /\ IF Len(allItems) = 0
       THEN /\ pc' = "noop"
            /\ exitCode' = 0
            /\ UNCHANGED <<itemsToUpdate, batchVars>>
       ELSE LET kept == filterItemsWithAttributes(allItems, ATTRIBUTES_TO_REMOVE)
            IN  /\ itemsToUpdate' = kept
                /\ IF Len(kept) = 0
                     THEN /\ pc' = "noop"
                          /\ exitCode' = 0
                          /\ UNCHANGED batchVars
                     ELSE /\ batches' = Batches(kept, BATCH_SIZE)
                          /\ batchIndex' = 0
                          /\ successCount' = 0
                          /\ errorCount' = 0
                          /\ mut' = [b \in DOMAIN Batches(kept, BATCH_SIZE) |->
                                      [j \in DOMAIN Batches(kept, BATCH_SIZE)[b] |->
                                         IdleMutator]]
                          /\ pc' = "batchLoop"
                          /\ exitCode' = exitCode
  /\ items' = <<>>
  /\ lastEvaluatedKey' = 0
  /\ scanCount' = 0
  /\ requests' = <<>>
  /\ UNCHANGED <<call, table, configVars, sleeping, allItems, succeeded, abandoned>>

(***************************************************************************)
(* updateItemWithRetry (lines 109-143)                                     *)
(***************************************************************************)
\* line 112: the condition of the while loop
LoopContinues(attempt, maxRetries) == attempt < maxRetries

\* a variant that retries after the last attempt too
ShouldRetryOffByOne(name, attempt, maxRetries) ==
  IsThrottlingError(name) /\ attempt < maxRetries

\* lines 126-127: the error is retried
ShouldRetry(name, attempt, maxRetries) ==
  IsThrottlingError(name) /\ attempt < maxRetries - 1

\* lines 110-122: the loop is entered and the operation sent, or line 142
EnterLoop(m) ==
  IF LoopContinues(m.attempt, m.maxRetries)
    THEN [m EXCEPT !.mpc = "sending", !.sends = @ + 1, !.backoffDelay = 0]
    ELSE [m EXCEPT !.mpc = "resolved", !.success = FALSE, !.backoffDelay = 0]

\* lines 164-174: the async function of batch.map, up to its first await
Invoke(item, maxRetries) ==
  EnterLoop([IdleMutator EXCEPT
               !.key = ItemKey(item),
               !.updateExpression = createUpdateExpression(ATTRIBUTES_TO_REMOVE, item),
               !.maxRetries = maxRetries])

InFlight(m) == m.mpc \in {"sending", "sleeping"}
Slots == UNION {{<<b, j>> : j \in DOMAIN mut[b]} : b \in DOMAIN mut}

(***************************************************************************)
(* processItemsInBatches (lines 146-200)                                   *)
(***************************************************************************)
\* a variant that joins as soon as one promise of the batch is settled
AnySettled(ms) == \E j \in DOMAIN ms : ms[j].mpc = "resolved"

\* line 179: Promise.all, every promise of the batch is settled
AllSettled(ms) == \A j \in DOMAIN ms : ms[j].mpc = "resolved"

\* lines 175 and 179: what batchResults keeps of a settled invocation
Joined(m) ==
  IF m.mpc = "resolved"
    THEN [IdleMutator EXCEPT !.mpc = "joined", !.key = m.key, !.success = m.success]
    ELSE m

\* lines 182-188
CountSuccess(ms) == Cardinality({j \in DOMAIN ms : ms[j].success})
\* a variant that counts a failure only when an error was caught
CountErrorCaught(ms) ==
  Cardinality({j \in DOMAIN ms : ~ms[j].success /\ ms[j].lastError # ""})
CountError(ms) == Cardinality({j \in DOMAIN ms : ~ms[j].success})

\* lines 159-176: the loop test, then one invocation per record of the batch,
\* all started at once; lines 199 and 251-258 when no batch is left
DispatchBatch ==
  /\ pc = "batchLoop"
  /\ IF batchIndex < Len(batches)
       THEN /\ mut' = [mut EXCEPT ![batchIndex + 1] =
                         [j \in DOMAIN batches[batchIndex + 1] |->
                            Invoke(batches[batchIndex + 1][j], MAX_RETRIES)]]
            /\ pc' = "batchWait"
            /\ exitCode' = exitCode
       ELSE /\ mut' = mut
            /\ pc' = "done"
            /\ exitCode' = 0
  /\ UNCHANGED <<call, table, configVars, sleeping, scanVars, allItems,
                 itemsToUpdate, batches, batchIndex, successCount, errorCount,
                 succeeded, abandoned>>

\* lines 122-123: the store applies the update and answers
UpdateSucceeds(b, j) ==
  /\ mut[b][j].mpc = "sending"
  /\ table' = StoreUpdateItem(table, UpdateParams(mut[b][j].key, mut[b][j].updateExpression))
  /\ mut' = [mut EXCEPT ![b][j].mpc = "resolved", ![b][j].success = TRUE]
  /\ succeeded' = succeeded \cup {mut[b][j].key[PARTITION_KEY]}
  /\ UNCHANGED <<call, configVars, pc, exitCode, sleeping, scanVars, allItems,
                 itemsToUpdate, batches, batchIndex, successCount, errorCount,
                 abandoned>>

\* lines 125-139: the store answers with an error and leaves the item as it is
UpdateFails(b, j) ==
  /\ mut[b][j].mpc = "sending"
  /\ \E name \in ErrorNames :
       IF ShouldRetry(name, mut[b][j].attempt, mut[b][j].maxRetries)
         THEN \E jitter \in Jitters :
                mut' = [mut EXCEPT
                          ![b][j].mpc = "sleeping",
                          ![b][j].backoffDelay =
                             calculateBackoffDelay(mut[b][j].attempt, INITIAL_DELAY, jitter),
                          ![b][j].sleeps = @ + 1,
                          ![b][j].throttles = @ + 1,
                          ![b][j].lastError = ErrorKind(name)]
         ELSE mut' = [mut EXCEPT
                        ![b][j].mpc = "resolved",
                        ![b][j].success = FALSE,
                        ![b][j].throttles = IF name \in ErrThrottle THEN @ + 1 ELSE @,
                        ![b][j].lastError = ErrorKind(name)]
  /\ UNCHANGED <<call, table, configVars, pc, exitCode, sleeping, scanVars,
                 allItems, itemsToUpdate, batches, batchIndex, successCount,
                 errorCount, succeeded, abandoned>>

\* a variant that leaves the attempt number as it is
NextAttemptSame(attempt) == attempt

\* line 132: attempt++
NextAttempt(attempt) == attempt + 1

\* lines 131-133 and 112-122: the backoff is over, attempt++ and continue
BackoffElapsed(b, j) ==
  /\ mut[b][j].mpc = "sleeping"
  /\ mut' = [mut EXCEPT ![b][j] =
               EnterLoop([mut[b][j] EXCEPT !.attempt = NextAttempt(@)])]
  /\ UNCHANGED <<call, table, configVars, pc, exitCode, sleeping, scanVars,
                 allItems, itemsToUpdate, batches, batchIndex, successCount,
                 errorCount, succeeded, abandoned>>

\* lines 179-199 (and 251-258 of main): the batch is joined and counted; the
\* last batch ends the loop and the run
JoinBatch ==
  /\ pc = "batchWait"
  /\ AllSettled(mut[batchIndex + 1])
  /\ successCount' = successCount + CountSuccess(mut[batchIndex + 1])
  /\ errorCount' = errorCount + CountError(mut[batchIndex + 1])
  /\ IF batchIndex < Len(batches) - 1
       THEN /\ sleeping' = 200
            /\ pc' = "batchPace"
            /\ batchIndex' = batchIndex
            /\ exitCode' = exitCode
       ELSE /\ sleeping' = 0
            /\ pc' = "done"
            /\ batchIndex' = batchIndex + 1
            /\ exitCode' = 0
  /\ mut' = [mut EXCEPT ![batchIndex + 1] =
               [j \in DOMAIN mut[batchIndex + 1] |-> Joined(mut[batchIndex + 1][j])]]
  /\ UNCHANGED <<call, table, configVars, scanVars, allItems, itemsToUpdate,
                 batches, succeeded, abandoned>>

\* lines 192-197 and 159: the delay between batches is over
BatchPaceElapsed ==
  /\ pc = "batchPace"
  /\ sleeping' = 0
  /\ batchIndex' = batchIndex + 1
  /\ pc' = "batchLoop"
  /\ UNCHANGED <<call, table, configVars, exitCode, scanVars, allItems,
                 itemsToUpdate, batches, successCount, errorCount, mut,
                 succeeded, abandoned>>

(***************************************************************************)
(* Signals (lines 266-275) and the next run                                *)
(***************************************************************************)
\* the updates the store has received and not yet answered
SentSlots == {s \in Slots : mut[s[1]][s[2]].mpc = "sending"}

RECURSIVE ApplyAll(_, _)
ApplyAll(tbl, slots) ==
  IF slots = {}
    THEN tbl
    ELSE LET s == CHOOSE x \in slots : TRUE
         IN  ApplyAll(StoreUpdateItem(tbl, UpdateParams(mut[s[1]][s[2]].key,
                                                        mut[s[1]][s[2]].updateExpression)),
                      slots \ {s})

\* lines 267-275: SIGINT or SIGTERM; the handler calls process.exit(0) and
\* the memory of the process is gone. The store may still apply any of the
\* updates it has received.
Signal ==
  /\ pc \notin Terminal
  /\ pc' = "exited"
  /\ exitCode' = 0
  /\ \E applied \in SUBSET SentSlots : table' = ApplyAll(table, applied)
  /\ abandoned' = Cardinality({s \in Slots : InFlight(mut[s[1]][s[2]])})
  /\ sleeping' = 0
  /\ items' = <<>>
  /\ lastEvaluatedKey' = 0
  /\ scanCount' = 0
  /\ requests' = <<>>
  /\ allItems' = <<>>
  /\ itemsToUpdate' = <<>>
  /\ batches' = <<>>
  /\ batchIndex' = 0
  /\ successCount' = 0
  /\ errorCount' = 0
  /\ mut' = <<>>
  /\ UNCHANGED <<call, configVars, succeeded>>

\* the script has ended and is run again on the same table
Restart ==
  /\ pc \in Terminal
  /\ abandoned' = 0
  /\ pc' = "main"
  /\ exitCode' = -1
  /\ sleeping' = 0
  /\ items' = <<>>
  /\ lastEvaluatedKey' = 0
  /\ scanCount' = 0
  /\ requests' = <<>>
  /\ allItems' = <<>>
  /\ itemsToUpdate' = <<>>
  /\ batches' = <<>>
  /\ batchIndex' = 0
  /\ successCount' = 0
  /\ errorCount' = 0
  /\ mut' = <<>>
  /\ UNCHANGED <<call, table, configVars, succeeded>>

(***************************************************************************)
(* The functions of the module called from another module (lines 285-292): *)
(* require() loads the configuration and does not run main (line 278)      *)
(***************************************************************************)
\* the settings of a complete configuration
ValidEnv ==
  [DYNAMODB_TABLE_NAME |-> String(<<"devices">>),
   DYNAMODB_PARTITION_KEY |-> String(<<"id">>),
   ATTRIBUTES_TO_REMOVE |-> String(<<"old", ",", " ", "tmp">>)]

\* calculateBackoffDelay(attempt, baseDelay), with the value Math.random() gives
BackoffCalls ==
  [fn : {"calculateBackoffDelay"}, attempt : 0 .. MaxAttempt, baseDelay : BaseDelays,
   jitter : Jitters, state : {"pending"}, result : {0}]

\* the key schemas of a table with the partition key id: without a sort key,
\* and with the sort key ts (getTableKeySchema edited, or handed to
\* processItemsInBatches)
KeySchemas ==
  [partitionKey : {KeyAttribute}, sortKey : {NoSortKey, String(<<"ts">>)}]
\* records of a table with the sort key ts
SortedItems == [id : 1 .. 2, ts : {0, 5}, old : {7}]
\* processItemsInBatches(items, tableName, attributesToRemove, keySchema): the
\* key its callback builds for a record
KeyCalls ==
  [fn : {"processItemsInBatches"}, keySchema : KeySchemas, item : SortedItems,
   state : {"pending"}, result : {<<>>}]

\* the maxRetries updateItemWithRetry is called with: a non-negative integer
DirectRetryLimits == 0 .. MaxRetriesCfg
\* updateItemWithRetry(tableName, key, updateExpression, maxRetries) for a
\* record of the table
UpdateCalls(tbl) ==
  [fn : {"updateItemWithRetry"}, item : {unmarshall(tbl[i]) : i \in DOMAIN tbl},
   maxRetries : DirectRetryLimits, state : {"pending"}, result : {FALSE}]

InitCalls ==
  /\ env = ValidEnv
  /\ BATCH_SIZE = MaxBatchSize
  /\ MAX_RETRIES = MaxRetriesCfg
  /\ \/ table = <<>> /\ call \in BackoffCalls \cup KeyCalls
     \/ table \in Tables /\ call \in UpdateCalls(table)
  /\ pc = "required"
  /\ exitCode = -1
  /\ sleeping = 0
  /\ items = <<>>
  /\ lastEvaluatedKey = 0
  /\ scanCount = 0
  /\ requests = <<>>
  /\ allItems = <<>>
  /\ itemsToUpdate = <<>>
  /\ batches = <<>>
  /\ batchIndex = 0
  /\ successCount = 0
  /\ errorCount = 0
  /\ mut = <<>>
  /\ succeeded = {}
  /\ abandoned = 0

callerVars == <<table, configVars, pc, exitCode, sleeping, scanVars, allItems,
                itemsToUpdate, batches, batchIndex, successCount, errorCount,
                succeeded, abandoned>>

\* lines 24-26
CallCalculateBackoffDelay ==
  /\ call.fn = "calculateBackoffDelay"
  /\ call.state = "pending"
  /\ call' = [call EXCEPT
                !.state = "returned",
                !.result = calculateBackoffDelay(call.attempt, call.baseDelay, call.jitter)]
  /\ UNCHANGED <<callerVars, mut>>

\* lines 164-169
CallKey ==
  /\ call.fn = "processItemsInBatches"
  /\ call.state = "pending"
  /\ call' = [call EXCEPT !.state = "returned", !.result = KeyOf(call.keySchema, call.item)]
  /\ UNCHANGED <<callerVars, mut>>

\* lines 109-122: the call runs up to its first await
CallUpdateItemWithRetry ==
  /\ call.fn = "updateItemWithRetry"
  /\ call.state = "pending"
  /\ mut' = <<<<Invoke(call.item, call.maxRetries)>>>>
  /\ call' = [call EXCEPT !.state = "called"]
  /\ UNCHANGED callerVars

\* lines 123, 138 and 142: the promise of the call is settled
UpdateItemWithRetryReturns ==
  /\ call.fn = "updateItemWithRetry"
  /\ call.state = "called"
  /\ mut[1][1].mpc = "resolved"
  /\ call' = [call EXCEPT !.state = "returned", !.result = mut[1][1].success]
  /\ UNCHANGED <<callerVars, mut>>

NextCalls ==
  \/ CallCalculateBackoffDelay
  \/ CallKey
  \/ CallUpdateItemWithRetry
  \/ \E s \in Slots : UpdateSucceeds(s[1], s[2])
  \/ \E s \in Slots : UpdateFails(s[1], s[2])
  \/ \E s \in Slots : BackoffElapsed(s[1], s[2])
  \/ UpdateItemWithRetryReturns

SpecCalls == InitCalls /\ [][NextCalls]_vars

\* the steps of one run of the script
Run ==
  \/ MainStart
  \/ ScanPageArrives
  \/ ScanPaceElapsed
  \/ ScanRequestFails
  \/ ScanBackoffElapsed
  \/ MainFilter
  \/ DispatchBatch
  \/ \E s \in Slots : UpdateSucceeds(s[1], s[2])
  \/ \E s \in Slots : UpdateFails(s[1], s[2])
  \/ \E s \in Slots : BackoffElapsed(s[1], s[2])
  \/ JoinBatch
  \/ BatchPaceElapsed

\* one run of the script, which a signal may end
Next == Run \/ Signal

Spec == Init /\ [][Next]_vars

\* runs of the script one after the other on the same table, each to its end
NextRerun == Run \/ Restart

SpecRerun == Init /\ [][NextRerun]_vars

\* one run of the script that no signal ends and in which every await is
\* resumed: the store answers every request and every timer fires
SpecFair == Init /\ [][Run]_vars /\ WF_vars(Run)

TypeOK ==
  /\ pc \in {"main", "scanning", "scanPace", "scanBackoff", "scanned", "batchLoop",
             "batchWait", "batchPace", "required"} \cup Terminal
  /\ exitCode \in {-1, 0, 1}
  /\ BATCH_SIZE \in BatchSizes
  /\ MAX_RETRIES \in RetryLimits
  /\ env \in Envs

(***************************************************************************)
(* Properties                                                              *)
(***************************************************************************)
Mutator(s) == mut[s[1]][s[2]]
InFlightSlots == {s \in Slots : InFlight(Mutator(s))}
TargetAttrs == Range(ATTRIBUTES_TO_REMOVE)
\* the slots that were given the record
SlotsOf(item) == {s \in Slots : Mutator(s).mpc # "idle" /\ Mutator(s).key = ItemKey(item)}

\* C1: when the batch phase has run to its end, the succeeded and failed
\* counts add up to the number of records handed to processItemsInBatches,
\* whatever the store answered to the mutations.
CountsAddUp ==
  pc = "done" => successCount + errorCount = Len(itemsToUpdate)

CountsAddUpWitness ==
  /\ pc = "done"
  /\ successCount >= 1
  /\ errorCount >= 1
  /\ Len(batches) >= 2

\* C2: a failed mutation never aborts the batch or the run: the run never
\* turns fatal once records were handed to the batch phase, no record is
\* given to updateItemWithRetry twice, and at the end every record kept by
\* the filter has exactly one invocation, joined with one outcome.
NoFailureAborts ==
  /\ pc = "fatal" => (itemsToUpdate = <<>> /\ mut = <<>>)
  /\ \A i \in DOMAIN itemsToUpdate : Cardinality(SlotsOf(itemsToUpdate[i])) <= 1
  /\ pc = "done" =>
       /\ \A i \in DOMAIN itemsToUpdate :
            /\ Cardinality(SlotsOf(itemsToUpdate[i])) = 1
            /\ \A s \in SlotsOf(itemsToUpdate[i]) : Mutator(s).mpc = "joined"
       /\ \A s \in Slots : Mutator(s).mpc = "joined"

NoFailureAbortsWitness ==
  /\ pc = "done"
  /\ Len(batches) >= 2
  /\ \E j \in DOMAIN mut[1] : ~mut[1][j].success
  /\ \E j \in DOMAIN mut[Len(batches)] : mut[Len(batches)][j].success

\* C3: a scan that was answered with rate-limiting errors only returns every
\* record of the table, in order, as a scan without errors does.
ScanReturnsEveryRecord ==
  pc = "scanned" => allItems = [i \in DOMAIN table |-> unmarshall(table[i])]

\* C4: batches run one after the other in index order: while an invocation
\* of a batch is dispatched, every invocation of every earlier batch is
\* settled.
BatchesSequential ==
  \A s \in Slots : \A t \in Slots :
    (t[1] < s[1] /\ Mutator(s).mpc # "idle") => Mutator(t).mpc \in {"resolved", "joined"}

BatchesSequentialWitness ==
  /\ errorCount >= 1
  /\ \E s \in Slots : s[1] >= 2 /\ Mutator(s).mpc = "sleeping"

\* C5: the number of invocations in flight (sending or sleeping) never
\* exceeds BATCH_SIZE.
BoundedConcurrency ==
  Cardinality(InFlightSlots) <= BATCH_SIZE

BoundedConcurrencyWitness ==
  /\ BATCH_SIZE >= 2
  /\ Cardinality(InFlightSlots) = BATCH_SIZE
  /\ \E s \in InFlightSlots : Mutator(s).mpc = "sleeping"
  /\ \E s \in InFlightSlots : Mutator(s).mpc = "sending"

OtherErrorFailsAtOnce ==
  \A s \in Slots :
    LET m == Mutator(s)
    IN  m.lastError = "Other" =>
          /\ m.mpc = "resolved"
          /\ ~m.success
          /\ m.backoffDelay = 0
          /\ m.sends = m.attempt + 1
          /\ m.sleeps = m.attempt

OtherErrorFailsAtOnceWitness ==
  /\ \E s \in Slots : Mutator(s).lastError = "Other" /\ Mutator(s).attempt = 0
                        /\ MAX_RETRIES >= 2
  /\ \E s \in Slots : Mutator(s).lastError = "Other" /\ Mutator(s).attempt >= 1

\* C8: a page request answered with an error that is not rate limiting is
\* the last request of the run: the run is in the fatal state with exit code
\* 1 and no record was handed to the batch phase.
ScanErrorIsFatal ==
  /\ \A i \in DOMAIN requests :
       requests[i].answer = "Other" =>
         (i = Len(requests) /\ pc = "fatal" /\ exitCode = 1)
  /\ pc = "fatal" => (exitCode = 1 /\ mut = <<>> /\ batches = <<>> /\ sleeping = 0)

ScanErrorIsFatalWitness ==
  /\ pc = "fatal"
  /\ scanCount >= 1
  /\ Len(items) >= 1
  /\ Len(requests) >= 3

\* C9: a signal ends the process only when no mutation of a batch is in
\* flight.
ShutdownWaitsForBatch ==
  pc = "exited" => abandoned = 0

\* C10: removal is idempotent and a rerun is safe: every update in flight
\* is for a record that still carries a target attribute and that had no
\* Succeeded outcome before, and applying it twice leaves the table as
\* applying it once.
RerunSelectsOnlyDirty ==
  \A s \in Slots :
    Mutator(s).mpc = "sending" =>
      LET params == UpdateParams(Mutator(s).key, Mutator(s).updateExpression)
      IN  /\ Mutator(s).key[PARTITION_KEY] \notin succeeded
          /\ \E i \in DOMAIN table :
               /\ KeyMatches(table[i], params.Key)
               /\ (DOMAIN table[i]) \cap TargetAttrs # {}
          /\ StoreUpdateItem(StoreUpdateItem(table, params), params)
               = StoreUpdateItem(table, params)
          /\ StoreUpdateItem(table, params) # table

RerunSelectsOnlyDirtyWitness ==
  /\ \E s \in Slots : Mutator(s).mpc = "sending" /\ Mutator(s).attempt >= 1
  /\ \E i \in DOMAIN table :
       /\ unmarshall(table[i])[PARTITION_KEY] \in succeeded
       /\ (DOMAIN table[i]) \cap TargetAttrs = {}
       /\ \A s \in Slots : Mutator(s).key # ItemKey(unmarshall(table[i]))

\* a call of calculateBackoffDelay that has returned
BackoffReturned == call.fn = "calculateBackoffDelay" /\ call.state = "returned"
\* the exponential term of the call
Exponential == call.baseDelay * Pow2(call.attempt)

\* C11 (as stated): for every attempt number a >= 0, every positive base and
\* every jitter value, calculateBackoffDelay(a, base) is at least base * 2^a.
BackoffAtLeastExponential ==
  BackoffReturned => call.result >= Exponential

\* C11 (amended): calculateBackoffDelay(a, base) is at least
\* min(base * 2^a, 30000): at least base * 2^a when base * 2^a is not above
\* 30000, and exactly 30000 when it is.
BackoffAtLeastCappedExponential ==
  BackoffReturned =>
    /\ call.result >= Min(Exponential, 30000)
    /\ Exponential <= 30000 => call.result >= Exponential
    /\ Exponential > 30000 => call.result = 30000

BackoffAtLeastCappedExponentialWitness ==
  /\ BackoffReturned
  /\ call.jitter = 0
  /\ call.attempt >= 1
  /\ call.result < Exponential

\* C12: for every attempt number a >= 0, every positive base and every
\* jitter value, calculateBackoffDelay(a, base) is at most 30000 ms, and so
\* is every backoff sleep of the scan and of an update.
BackoffNeverLonger ==
  /\ BackoffReturned => call.result <= 30000
  /\ sleeping <= 30000
  /\ \A s \in Slots : Mutator(s).backoffDelay <= 30000

BackoffNeverLongerWitness ==
  /\ BackoffReturned
  /\ call.jitter > 0
  /\ Exponential + call.jitter > 30000
  /\ call.result = 30000

\* C13: a scan no request of which failed, served in k pages (a token on
\* every page but the last), has sent exactly k page requests, the first
\* without a token and each later one with the token of the page before,
\* returns the records of the k pages in page order, and has slept the
\* 50 ms pacing delay exactly k-1 times: before each request but the first
\* and not after the last page.
ScanWithoutErrors ==
  (pc = "scanned" /\ \A i \in DOMAIN requests : requests[i].answer = "ok") =>
    LET k == Len(requests)
    IN  /\ k >= 1
        /\ scanCount = k
        /\ requests[1].token = 0
        /\ requests[1].slept = 0
        /\ \A i \in 1 .. (k - 1) : requests[i].next # 0
        /\ requests[k].next = 0
        /\ \A i \in 2 .. k :
             /\ requests[i].token = requests[i - 1].next
             /\ requests[i].token > requests[i - 1].token
             /\ requests[i].slept = 50
        /\ Cardinality({i \in DOMAIN requests : requests[i].slept # 0}) = k - 1
        /\ sleeping = 0
        /\ Len(allItems) = Len(table)
        /\ allItems = [i \in DOMAIN table |-> unmarshall(table[i])]

ScanWithoutErrorsWitness ==
  /\ pc = "scanned"
  /\ \A i \in DOMAIN requests : requests[i].answer = "ok"
  /\ Len(requests) >= 3
  /\ Len(allItems) > PageSize

\* the attributes an update expression names
NamedBy(e) == {e.ExpressionAttributeNames[ph] : ph \in Range(e.UpdateExpression.REMOVE)}

\* C14: createUpdateExpression returns null exactly for a record without a
\* target attribute and else names exactly the target attributes the record
\* has; every dispatched update carries such an expression, never null and
\* never naming an attribute outside ATTRIBUTES_TO_REMOVE.
MutationNamesExactly ==
  /\ pc = "scanned" =>
       \A i \in DOMAIN allItems :
         LET e == createUpdateExpression(ATTRIBUTES_TO_REMOVE, allItems[i])
         IN  /\ (e = NULL) <=> (TargetAttrs \cap DOMAIN allItems[i] = {})
             /\ e # NULL => NamedBy(e) = TargetAttrs \cap DOMAIN allItems[i]
  /\ \A s \in Slots :
       Mutator(s).mpc \in {"sending", "sleeping", "resolved"} =>
         LET e == Mutator(s).updateExpression
             r == batches[s[1]][s[2]]
         IN  /\ e # NULL
             /\ NamedBy(e) = TargetAttrs \cap DOMAIN r
             /\ NamedBy(e) # {}
             /\ DOMAIN e.ExpressionAttributeNames = Range(e.UpdateExpression.REMOVE)
             /\ RemovedNames(UpdateParams(Mutator(s).key, e)) \subseteq TargetAttrs

MutationNamesExactlyWitness ==
  /\ Len(allItems) > Len(itemsToUpdate)
  /\ \E s \in Slots : /\ Mutator(s).mpc = "sending"
                       /\ NamedBy(Mutator(s).updateExpression) = {"old"}
                       /\ "extra" \in DOMAIN batches[s[1]][s[2]]
  /\ \E s \in Slots : /\ Mutator(s).mpc = "sending"
                       /\ NamedBy(Mutator(s).updateExpression) = {"old", "tmp"}

\* main has just filtered the records of the scan; allItems and
\* itemsToUpdate stay as they are to the end of the run
Filtered == pc = "noop" \/ (pc = "batchLoop" /\ batchIndex = 0)

\* C15: the records kept by filterItemsWithAttributes are exactly the
\* scanned records with at least one target attribute, in the order of the
\* scan and unchanged; filtering the kept records again keeps them all; no
\* more records are kept than were scanned.
FilterKeepsExactly ==
  Filtered =>
    /\ \E f \in [DOMAIN itemsToUpdate -> DOMAIN allItems] :
         /\ \A k \in DOMAIN itemsToUpdate : itemsToUpdate[k] = allItems[f[k]]
         /\ \A k \in DOMAIN itemsToUpdate : \A l \in DOMAIN itemsToUpdate :
              k < l => f[k] < f[l]
         /\ \A i \in DOMAIN allItems :
              (\E k \in DOMAIN itemsToUpdate : f[k] = i)
                <=> (TargetAttrs \cap DOMAIN allItems[i] # {})
    /\ filterItemsWithAttributes(itemsToUpdate, ATTRIBUTES_TO_REMOVE) = itemsToUpdate
    /\ Len(itemsToUpdate) <= Len(allItems)

FilterKeepsExactlyWitness ==
  /\ pc = "batchLoop"
  /\ Len(allItems) >= 3
  /\ Len(itemsToUpdate) = 2
  /\ TargetAttrs \cap DOMAIN allItems[2] = {}
  /\ DOMAIN itemsToUpdate[1] # DOMAIN itemsToUpdate[2]

\* processItemsInBatches has just grouped the records; batches stays as it
\* is to the end of the run
Grouped == pc = "batchLoop" /\ batchIndex = 0

\* C16: n records and a batch size B >= 1 give ceil(n/B) groups, every one
\* of B records but the last, which has 1 to B; the groups are contiguous
\* and in the order of the list, and every record is in exactly one group.
PartitionIsExact ==
  Grouped =>
    LET n == Len(itemsToUpdate)
        B == BATCH_SIZE
    IN  /\ Len(batches) = (n + B - 1) \div B
        /\ \A b \in 1 .. (Len(batches) - 1) : Len(batches[b]) = B
        /\ Len(batches[Len(batches)]) \in 1 .. B
        /\ \A b \in DOMAIN batches : \A j \in DOMAIN batches[b] :
             /\ (b - 1) * B + j \in 1 .. n
             /\ batches[b][j] = itemsToUpdate[(b - 1) * B + j]
        /\ \A i \in 1 .. n :
             Cardinality({bj \in (DOMAIN batches) \X (1 .. B) :
                            /\ bj[2] \in DOMAIN batches[bj[1]]
                            /\ (bj[1] - 1) * B + bj[2] = i}) = 1

PartitionIsExactWitness ==
  /\ Grouped
  /\ BATCH_SIZE = 2
  /\ Len(itemsToUpdate) = 3
  /\ Len(batches) = 2
  /\ Len(batches[2]) = 1

\* C17: with an invalid configuration, that is the partition key or the
\* list of attributes unset or set to an empty value, the run is fatal
\* before any access to the store: no page request and no update is sent.
InvalidConfigIsFatalBeforeStore ==
  (Not(env.DYNAMODB_PARTITION_KEY) \/ Not(env.ATTRIBUTES_TO_REMOVE)) =>
    /\ pc \in {"main", "fatal", "exited"}
    /\ pc = "fatal" => exitCode = 1
    /\ requests = <<>>
    /\ mut = <<>>

\* C18: updateItemWithRetry called with a maxRetries >= 0 sends the update
\* at least once, and succeeds when the store accepts the first send.
SentAtLeastOnce ==
  \A s \in Slots :
    (Mutator(s).maxRetries >= 0 /\ Mutator(s).mpc = "resolved") =>
      /\ Mutator(s).sends >= 1
      /\ (Mutator(s).sends = 1 /\ Mutator(s).lastError = "") => Mutator(s).success

\* C19: under a key schema with a sort key, the key built for a record has
\* the partition key and the sort key with the values of the record,
\* whatever the sort value is.
KeyHasSortValue ==
  (call.fn = "processItemsInBatches" /\ call.state = "returned"
     /\ ~Not(call.keySchema.sortKey)) =>
    call.result = [id |-> call.item.id, ts |-> call.item.ts]

\* the run has ended: the final summary, an early return or the fatal error
Ended == pc \in {"done", "noop", "fatal"}

\* the sends an invocation is allowed
SendLimit == IF MAX_RETRIES > 0 THEN MAX_RETRIES ELSE 0

\* the steps an invocation in flight has left at most: a send and a sleep
\* per attempt
StepsLeft(m) ==
  CASE m.mpc = "sending" -> 2 * (SendLimit - m.attempt) + 1
    [] m.mpc = "sleeping" -> 2 * (SendLimit - m.attempt)
    [] OTHER -> 0

RECURSIVE SumStepsLeft(_, _)
SumStepsLeft(ms, j) ==
  IF j = 0 THEN 0 ELSE StepsLeft(ms[j]) + SumStepsLeft(ms, j - 1)

\* the steps a batch takes at most: dispatch, join and pace, and the steps
\* of its invocations
BatchSteps == 4 + BATCH_SIZE * (2 * SendLimit + 1)

\* the steps the batch phase has left at most
BatchStepsLeft ==
  CASE pc = "batchLoop" -> (Len(batches) - batchIndex) * BatchSteps + 1
    [] pc = "batchWait" ->
         (Len(batches) - batchIndex - 1) * BatchSteps + 3
           + SumStepsLeft(mut[batchIndex + 1], Len(mut[batchIndex + 1]))
    [] pc = "batchPace" -> (Len(batches) - batchIndex - 1) * BatchSteps + 2
    [] OTHER -> 0
BatchStepsBound == NumRecords * (4 + MaxBatchSize * (2 * MaxRetriesCfg + 1)) + 1

\* the steps the scan has left at most: two per record not yet retrieved
\* and two per page request the store may still fail
ScanStepsLeft ==
  2 * ((Len(table) - lastEvaluatedKey) + (MaxScanFailures - ScanFailures(requests)))
    + (IF pc = "scanning" THEN 0 ELSE 1)
ScanStepsBound == 2 * (NumRecords + MaxScanFailures) + 1

\* the steps the run has left at most
StepsToEnd ==
  CASE pc = "main" -> BatchStepsBound + ScanStepsBound + 3
    [] pc \in {"scanning", "scanPace", "scanBackoff"} -> BatchStepsBound + 2 + ScanStepsLeft
    [] pc = "scanned" -> BatchStepsBound + 1
    [] pc \in {"batchLoop", "batchWait", "batchPace"} -> BatchStepsLeft
    [] OTHER -> 0

====
